---- MODULE Spec2Model ----
(***************************************************************************)
(* Replay worker (replayWorker.Process) and postgres replay repository     *)
(* (Insert, GetByID, UpdateStatus) of optimus.                             *)
(*                                                                         *)
(* Every repository call and every scheduler call of Process is one step,  *)
(* so that several Process invocations interleave at the calls they make.  *)
(* UpdateStatus is two database operations (Find, then Save) and is        *)
(* modelled as two steps.                                                  *)
(***************************************************************************)
EXTENDS Integers, Sequences, FiniteSets, TLC

\* ---------------------------------------------------------------- bounds
\* Process invocations over the whole run
MaxStarts == 2

\* two workers, so that two invocations can overlap; two request ids
Workers == {"w1", "w2"}
ReqIds == {"id1", "id2"}

\* ------------------------------------------------------------- constants
AirflowClearDagRunFailed == "failed to clear airflow dag run"

ReplayStatusCreated == "Created"
ReplayStatusInProgress == "InProgress"
ReplayStatusReplayed == "Replayed"
ReplayStatusFailed == "Failed"

\* errors are sequences of text fragments; nil is the empty sequence
Nil == <<>>
ErrNonExistingReplay == <<"could not update non-existing replay">>
ErrResourceNotFound == <<"resource not found">>
ErrDB == <<"db error">>
ErrJobAdapter == <<"job adapter error">>
ErrProjectSecrets == <<"project secrets error">>
ClearErrors == {<<"airflow unreachable">>, <<"dag not found">>}

\* a wrap that leaves the job name out
WrapfNoName(err, name) ==
    <<"error while clearing dag runs", ": ">> \o err

\* errors.Wrapf(err, "error while clearing dag runs for job %s", name);
\* err.Error() of the result is "<message>: <cause>"
Wrapf(err, name) ==
    <<"error while clearing dag runs for job ", name, ": ">> \o err

\* --------------------------------------------------------------- messages
\* models.ReplayMessage{Type, Message}; the zero value is the empty message
ReplayMessage(type, message) == [Type |-> type, Message |-> message]
EmptyMessage == ReplayMessage("", <<>>)

\* json.Marshal(message): the stored bytes, a list of key/value pairs
MarshalMessage(m) == << <<"Type", m.Type>>, <<"Message", m.Message>> >>

\* json.Unmarshal(p.Message, &message)
UnmarshalMessage(b) == ReplayMessage(b[1][2], b[2][2])

\* ------------------------------------------------------------------ trees
\* tree.TreeNode: Data is the job spec, Runs a sorted set of instants
TreeNode(name, runs, dependents) ==
    [Data |-> [Name |-> name], Runs |-> runs, Dependents |-> dependents]

\* the execution trees a request is created with (runs ascending, distinct):
\* the job alone, and the job with one dependent
Trees ==
    { TreeNode("ingest", <<1, 2, 3>>, <<>>),
      TreeNode("ingest", <<1, 2, 3>>, << TreeNode("transform", <<2, 3>>, <<>>) >>) }

\* an optional value is a sequence of length 0 (absent) or 1 (present)
None == <<>>
Some(x) == <<x>>

\* treeset Add: insert into an ascending sequence without duplicates
RECURSIVE TreeSetAdd(_, _)
TreeSetAdd(s, x) ==
    IF s = <<>> THEN <<x>>
    ELSE IF x = Head(s) THEN s
    ELSE IF x < Head(s) THEN <<x>> \o s
    ELSE <<Head(s)>> \o TreeSetAdd(Tail(s), x)

RECURSIVE AddAll(_, _)
AddAll(set, runs) ==
    IF runs = <<>> THEN set ELSE AddAll(TreeSetAdd(set, Head(runs)), Tail(runs))

\* fromTreeNode: the persisted form {Data, Dependents, Runs} of a tree node;
\* Data is kept as the key/value pairs of the job spec
RECURSIVE fromTreeNode(_)
fromTreeNode(t) ==
    [Data |-> << <<"Name", t.Data.Name>> >>,
     Dependents |-> [i \in 1..Len(t.Dependents) |-> fromTreeNode(t.Dependents[i])],
     Runs |-> t.Runs]

\* a Decode that leaves the job spec zero
DecodeJobSpecZero(data) == [Name |-> ""]

\* mapstructure.Decode(executionTree.Data, &jobSpec): a nil Data leaves the
\* zero job spec
DecodeJobSpec(data) ==
    IF data = <<>> THEN [Name |-> ""] ELSE [Name |-> data[1][2]]

\* toTreeNode: rebuild the tree node, adding each run to the node's run set
RECURSIVE toTreeNode(_)
toTreeNode(e) ==
    [Data |-> DecodeJobSpec(e.Data),
     Runs |-> AddAll(<<>>, e.Runs),
     Dependents |-> [i \in 1..Len(e.Dependents) |-> toTreeNode(e.Dependents[i])]]

\* the zero ExecutionTree{} that ToSpec starts from
ZeroExecutionTree == [Data |-> <<>>, Dependents |-> <<>>, Runs |-> <<>>]

\* TreeNode.GetAllNodes: every node of the tree, root included
RECURSIVE GetAllNodes(_)
GetAllNodes(t) ==
    {[Name |-> t.Data.Name, Runs |-> t.Runs]}
    \cup UNION {GetAllNodes(t.Dependents[i]) : i \in 1..Len(t.Dependents)}

\* the orders in which the nodes of a set can be visited
Orders(S) ==
    {o \in [1..Cardinality(S) -> S] : \A n \in S : \E i \in DOMAIN o : o[i] = n}


\* ------------------------------------------------------------------ state
VARIABLES
    db,             \* the replay table: request id -> optional Replay row
    pc,             \* per worker: where its Process invocation stands
    reqUUID,        \* per worker: the request id Process was called with
    arg,            \* per worker: status and message of the UpdateStatus under way
    r,              \* per worker: the row read by UpdateStatus' Find
    replaySpec,     \* per worker: the spec fetched by GetByID
    replayDagsMap,  \* per worker: the flattened nodes, in visitation order
    i,              \* per worker: number of nodes cleared successfully
    err,            \* per worker: the err variable of Process
    ret,            \* per worker: the error Process returned
    log,            \* per worker: the calls of this invocation, with results
    started,        \* per request id: number of Process invocations so far
    replay,         \* repository calls: the spec handed to Insert
    table,          \* repository calls: id -> optional stored row
    result          \* repository calls: the last call and what it returned

\* the state of the repository calls made outside a Process invocation
repoVars == <<replay, table, result>>

vars == <<db, pc, reqUUID, arg, r, replaySpec, replayDagsMap, i, err, ret,
          log, started, replay, table, result>>

\* ----------------------------------------------------------- repository
\* Replay.FromSpec: the row stored for a spec
FromSpec(spec) ==
    [ID |-> spec.ID,
     JobID |-> spec.Job.Name,
     StartDate |-> spec.StartDate,
     EndDate |-> spec.EndDate,
     Status |-> spec.Status,
     Message |-> MarshalMessage(spec.Message),
     CreatedAt |-> 0,
     ExecutionTree |->
        IF spec.ExecutionTree # None
        THEN Some(fromTreeNode(spec.ExecutionTree[1]))
        ELSE None]

\* Replay.ToSpec: the spec rebuilt from a row; a missing execution tree is
\* rebuilt from the zero ExecutionTree
ToSpec(p, jobSpec) ==
    [ID |-> p.ID,
     Job |-> jobSpec,
     Status |-> p.Status,
     StartDate |-> p.StartDate,
     EndDate |-> p.EndDate,
     Message |-> UnmarshalMessage(p.Message),
     CreatedAt |-> p.CreatedAt,
     ExecutionTree |->
        Some(toTreeNode(IF p.ExecutionTree # None
                        THEN p.ExecutionTree[1]
                        ELSE ZeroExecutionTree))]

\* the project a job belongs to (Preload("Job.Project"))
ProjectOf(jobID) == "project-of-" \o jobID

\* the specs a dispatcher creates: status Created, empty message, the root of
\* the tree is the requested job, the tree may be absent
NewSpecs(id) ==
    {[ID |-> id, Job |-> [Name |-> "ingest"], Status |-> ReplayStatusCreated,
      StartDate |-> 1, EndDate |-> 3,
      Message |-> EmptyMessage, ExecutionTree |-> t]
        : t \in {None} \cup {Some(x) : x \in Trees}}

\* DB.Create(&r): the row as stored, with the creation time set
Created(row) == [row EXCEPT !.CreatedAt = 1]

\* replayRepository.Insert: DB.Create fails on an existing primary key
Insert(id) ==
    /\ db[id] = None
    /\ \E spec \in NewSpecs(id) :
          db' = [db EXCEPT ![id] = Some(Created(FromSpec(spec)))]
    /\ UNCHANGED <<pc, reqUUID, arg, r, replaySpec, replayDagsMap, i, err, ret,
                   log, started>>
    /\ UNCHANGED repoVars

\* ---------------------------------------------------------------- worker
\* one call of the invocation: the operation, the status it was to write
\* (UpdateStatus), the job, range and project (Clear), and the error it returned
Call(op, status, job, startTime, endTime, project, res) ==
    [op |-> op, status |-> status, job |-> job,
     startTime |-> startTime, endTime |-> endTime, project |-> project,
     res |-> res]

NoArg == [status |-> "", message |-> EmptyMessage]

\* a first update that leaves the status Created
InProgressUpdateCreated ==
    [status |-> ReplayStatusCreated, message |-> EmptyMessage]

\* a failure update that writes the status Replayed
FailedUpdateReplayed(e) ==
    [status |-> ReplayStatusReplayed,
     message |-> ReplayMessage(AirflowClearDagRunFailed, e)]

\* the three status updates of Process
InProgressUpdate == [status |-> ReplayStatusInProgress, message |-> EmptyMessage]

FailedUpdate(e) ==
    [status |-> ReplayStatusFailed,
     message |-> ReplayMessage(AirflowClearDagRunFailed, e)]

\* a final update that writes the status Failed
ReplayedUpdateFailed ==
    [status |-> ReplayStatusFailed, message |-> EmptyMessage]

ReplayedUpdate == [status |-> ReplayStatusReplayed, message |-> EmptyMessage]

RECURSIVE Sum(_, _)
Sum(f, S) == IF S = {} THEN 0 ELSE LET x == CHOOSE y \in S : TRUE
                                  IN f[x] + Sum(f, S \ {x})

\* Process is called with a request id: it starts with UpdateStatus(InProgress)
Process(w, id) ==
    /\ pc[w] = "idle"
    /\ Sum(started, ReqIds) < MaxStarts
    /\ pc' = [pc EXCEPT ![w] = "UpdateStatus"]
    /\ reqUUID' = [reqUUID EXCEPT ![w] = id]
    /\ arg' = [arg EXCEPT ![w] = InProgressUpdate]
    /\ started' = [started EXCEPT ![id] = @ + 1]
    /\ UNCHANGED <<db, r, replaySpec, replayDagsMap, i, err, ret, log>>
    /\ UNCHANGED repoVars

\* a Process that returns nil once the failure is recorded
AfterUpdateStatusSwallows(w, e) ==
    IF arg[w].status = ReplayStatusInProgress
    THEN IF e # Nil THEN [pc |-> "returned", ret |-> e]
                    ELSE [pc |-> "GetByID", ret |-> Nil]
    ELSE IF e # Nil THEN [pc |-> "returned", ret |-> e]
                    ELSE [pc |-> "returned", ret |-> Nil]

\* a Process that goes on to GetByID although marking InProgress failed
AfterUpdateStatusIgnoreErr(w, e) ==
    IF arg[w].status = ReplayStatusInProgress
    THEN [pc |-> "GetByID", ret |-> Nil]
    ELSE IF arg[w].status = ReplayStatusFailed
    THEN IF e # Nil THEN [pc |-> "returned", ret |-> e]
                    ELSE [pc |-> "returned", ret |-> err[w]]
    ELSE IF e # Nil THEN [pc |-> "returned", ret |-> e]
                    ELSE [pc |-> "returned", ret |-> Nil]

\* a Process that returns the Clear error whether or not recording it failed
AfterUpdateStatusKeepsClearErr(w, e) ==
    IF arg[w].status = ReplayStatusInProgress
    THEN IF e # Nil THEN [pc |-> "returned", ret |-> e]
                    ELSE [pc |-> "GetByID", ret |-> Nil]
    ELSE IF arg[w].status = ReplayStatusFailed
    THEN [pc |-> "returned", ret |-> err[w]]
    ELSE IF e # Nil THEN [pc |-> "returned", ret |-> e]
                    ELSE [pc |-> "returned", ret |-> Nil]

\* a Process that goes on with the loop after recording a failure
AfterUpdateStatusContinue(w, e) ==
    IF arg[w].status = ReplayStatusInProgress
    THEN IF e # Nil THEN [pc |-> "returned", ret |-> e]
                    ELSE [pc |-> "GetByID", ret |-> Nil]
    ELSE IF arg[w].status = ReplayStatusFailed
    THEN IF e # Nil THEN [pc |-> "returned", ret |-> e]
                    ELSE [pc |-> "Clear", ret |-> Nil]
    ELSE IF e # Nil THEN [pc |-> "returned", ret |-> e]
                    ELSE [pc |-> "returned", ret |-> Nil]

\* what Process does when the UpdateStatus it called returns e
AfterUpdateStatus(w, e) ==
    IF arg[w].status = ReplayStatusInProgress
    THEN IF e # Nil THEN [pc |-> "returned", ret |-> e]
                    ELSE [pc |-> "GetByID", ret |-> Nil]
    ELSE IF arg[w].status = ReplayStatusFailed
    THEN IF e # Nil THEN [pc |-> "returned", ret |-> e]
                    ELSE [pc |-> "returned", ret |-> err[w]]
    ELSE IF e # Nil THEN [pc |-> "returned", ret |-> e]
                    ELSE [pc |-> "returned", ret |-> Nil]

\* UpdateStatus returns e to Process
UpdateStatusReturns(w, e) ==
    /\ pc' = [pc EXCEPT ![w] = AfterUpdateStatus(w, e).pc]
    /\ ret' = [ret EXCEPT ![w] = AfterUpdateStatus(w, e).ret]
    /\ log' = [log EXCEPT ![w] =
                 Append(@, Call("UpdateStatus", arg[w].status, "", 0, 0, "", e))]
    /\ r' = [r EXCEPT ![w] = None]

\* a lookup that reports no error for a missing row and hands Save a zero row
UpdateStatusFindCreates(w) ==
    /\ pc[w] = "UpdateStatus"
    /\ \/ /\ r' = [r EXCEPT ![w] =
                     IF db[reqUUID[w]] # None
                     THEN db[reqUUID[w]]
                     ELSE Some(FromSpec([ID |-> reqUUID[w], Job |-> [Name |-> ""],
                                         Status |-> "", StartDate |-> 0,
                                         EndDate |-> 0, Message |-> EmptyMessage,
                                         ExecutionTree |-> None]))]
          /\ pc' = [pc EXCEPT ![w] = "Save"]
          /\ UNCHANGED <<ret, log>>
       \/ UpdateStatusReturns(w, ErrNonExistingReplay)
    /\ UNCHANGED <<db, reqUUID, arg, replaySpec, replayDagsMap, i, err, started>>
    /\ UNCHANGED repoVars

\* UpdateStatus, first half: DB.Where("id = ?").Find(&r); any error of the
\* lookup is reported as a non-existing replay
UpdateStatusFind(w) ==
    /\ pc[w] = "UpdateStatus"
    /\ \/ /\ db[reqUUID[w]] # None
          /\ r' = [r EXCEPT ![w] = db[reqUUID[w]]]
          /\ pc' = [pc EXCEPT ![w] = "Save"]
          /\ UNCHANGED <<ret, log>>
       \/ UpdateStatusReturns(w, ErrNonExistingReplay)
    /\ UNCHANGED <<db, reqUUID, arg, replaySpec, replayDagsMap, i, err, started>>
    /\ UNCHANGED repoVars

\* a Save of a row whose execution tree was not loaded
SavedRowDropsTree(row, status, message) ==
    [row EXCEPT !.Status = status, !.Message = MarshalMessage(message),
                !.ExecutionTree = None]

\* a Save that writes the status and leaves the stored message
SavedRowStatusOnly(row, status, message) ==
    [row EXCEPT !.Status = status]

\* the row DB.Save writes: the row read by Find with r.Status and r.Message set
SavedRow(row, status, message) ==
    [row EXCEPT !.Status = status, !.Message = MarshalMessage(message)]

\* UpdateStatus, second half: DB.Save(&r) writes the whole row, or fails and
\* writes nothing
UpdateStatusSave(w) ==
    /\ pc[w] = "Save"
    /\ \/ /\ db' = [db EXCEPT ![reqUUID[w]] =
                      Some(SavedRow(r[w][1], arg[w].status, arg[w].message))]
          /\ UpdateStatusReturns(w, Nil)
       \/ /\ UpdateStatusReturns(w, ErrDB)
          /\ UNCHANGED db
    /\ UNCHANGED <<reqUUID, arg, replaySpec, replayDagsMap, i, err, started>>
    /\ UNCHANGED repoVars

\* the errors GetByID can end with although the row exists
GetByIDErrors == {ErrDB, ErrJobAdapter, ErrProjectSecrets}

\* a Process that reports every failure of GetByID as not-found
AfterGetByIDNotFound(w, e) ==
    IF e # Nil THEN [pc |-> "returned", ret |-> ErrResourceNotFound]
               ELSE [pc |-> "Clear", ret |-> Nil]

\* what Process does when the GetByID it called returns e
AfterGetByID(w, e) ==
    IF e # Nil THEN [pc |-> "returned", ret |-> e]
               ELSE [pc |-> "Clear", ret |-> Nil]

\* replaySpecRepo.GetByID(reqUUID), then ExecutionTree.GetAllNodes()
GetByID(w) ==
    /\ pc[w] = "GetByID"
    /\ \/ /\ db[reqUUID[w]] # None
          /\ LET row == db[reqUUID[w]][1]
                 spec == ToSpec(row, [Name |-> row.JobID,
                                      Project |-> ProjectOf(row.JobID)])
             IN /\ replaySpec' = [replaySpec EXCEPT ![w] = Some(spec)]
                /\ \E o \in Orders(GetAllNodes(spec.ExecutionTree[1])) :
                      replayDagsMap' = [replayDagsMap EXCEPT ![w] = o]
          /\ pc' = [pc EXCEPT ![w] = AfterGetByID(w, Nil).pc]
          /\ ret' = [ret EXCEPT ![w] = AfterGetByID(w, Nil).ret]
          /\ log' = [log EXCEPT ![w] =
                       Append(@, Call("GetByID", "", "", 0, 0, "", Nil))]
       \/ /\ \E e \in (IF db[reqUUID[w]] = None
                       THEN {ErrResourceNotFound, ErrDB}
                       ELSE GetByIDErrors) :
                /\ pc' = [pc EXCEPT ![w] = AfterGetByID(w, e).pc]
                /\ ret' = [ret EXCEPT ![w] = AfterGetByID(w, e).ret]
                /\ log' = [log EXCEPT ![w] =
                             Append(@, Call("GetByID", "", "", 0, 0, "", e))]
          /\ UNCHANGED <<replaySpec, replayDagsMap>>
    /\ UNCHANGED <<db, reqUUID, arg, r, i, err, started>>
    /\ UNCHANGED repoVars

\* a range that ends at the first run
RunRangeFirstOnly(runTimes) == <<runTimes[1], runTimes[1]>>

\* startTime := runTimes[0]; endTime := runTimes[treeNode.Runs.Size()-1]
RunRange(runTimes) == <<runTimes[1], runTimes[Len(runTimes)]>>

\* one iteration of the loop over replayDagsMap: the run range of the node,
\* then scheduler.Clear; indexing an empty run list panics
Clear(w) ==
    /\ pc[w] = "Clear"
    /\ LET treeNode == replayDagsMap[w][i[w] + 1]
           runTimes == treeNode.Runs
           call(e) == Call("Clear", "", treeNode.Name, RunRange(runTimes)[1],
                           RunRange(runTimes)[2],
                           replaySpec[w][1].Job.Project, e)
       IN IF runTimes = <<>>
          THEN /\ pc' = [pc EXCEPT ![w] = "panicked"]
               /\ UNCHANGED <<i, err, arg, log>>
          ELSE \/ /\ log' = [log EXCEPT ![w] = Append(@, call(Nil))]
                  /\ i' = [i EXCEPT ![w] = @ + 1]
                  /\ IF i[w] + 1 = Len(replayDagsMap[w])
                     THEN /\ pc' = [pc EXCEPT ![w] = "UpdateStatus"]
                          /\ arg' = [arg EXCEPT ![w] = ReplayedUpdate]
                     ELSE UNCHANGED <<pc, arg>>
                  /\ UNCHANGED err
               \/ \E e \in ClearErrors :
                     /\ log' = [log EXCEPT ![w] = Append(@, call(e))]
                     /\ err' = [err EXCEPT ![w] = Wrapf(e, treeNode.Name)]
                     /\ arg' = [arg EXCEPT ![w] =
                                  FailedUpdate(Wrapf(e, treeNode.Name))]
                     /\ pc' = [pc EXCEPT ![w] = "UpdateStatus"]
                     /\ UNCHANGED i
    /\ UNCHANGED <<db, reqUUID, r, replaySpec, replayDagsMap, ret, started>>
    /\ UNCHANGED repoVars

\* the caller has taken the result: the worker is free for the next request
Finish(w) ==
    /\ pc[w] \in {"returned", "panicked"}
    /\ pc' = [pc EXCEPT ![w] = "idle"]
    /\ reqUUID' = [reqUUID EXCEPT ![w] = CHOOSE id \in ReqIds : TRUE]
    /\ arg' = [arg EXCEPT ![w] = NoArg]
    /\ r' = [r EXCEPT ![w] = None]
    /\ replaySpec' = [replaySpec EXCEPT ![w] = None]
    /\ replayDagsMap' = [replayDagsMap EXCEPT ![w] = <<>>]
    /\ i' = [i EXCEPT ![w] = 0]
    /\ err' = [err EXCEPT ![w] = Nil]
    /\ ret' = [ret EXCEPT ![w] = Nil]
    /\ log' = [log EXCEPT ![w] = <<>>]
    /\ UNCHANGED <<db, started>>
    /\ UNCHANGED repoVars

\* ------------------------------------------------------ repository calls
\* Insert and GetByID as called on the repository, outside a Process
\* invocation, with the error paths of FromSpec and ToSpec

\* the largest number of dependents of a node of the trees handed to Insert
MaxDependents == 2

\* uuid.Nil, the ID of the zero Replay{}
uuidNil == "00000000-0000-0000-0000-000000000000"

ErrMarshal == <<"json: unsupported type">>
ErrUnmarshal == <<"unexpected end of JSON input">>
ErrDuplicateKey == <<"duplicate key value violates unique constraint">>

\* the sequences of at most n elements of S
SeqsUpTo(S, n) == UNION {[1..k -> S] : k \in 0..n}

\* nodes without dependents: a job payload and an ascending run list
Leaves == {TreeNode(n, rs, <<>>) : n \in {"a", "b"}, rs \in {<<1>>, <<1, 2>>}}

\* nodes whose dependents, in every order, are leaves
Level1 ==
    {TreeNode(n, rs, d) : n \in {"a", "b"}, rs \in {<<1>>, <<1, 2>>},
                          d \in SeqsUpTo(Leaves, MaxDependents)}

\* the trees handed to Insert: depth at most three
InsertTrees == Level1 \cup {TreeNode("ingest", <<1, 2>>, <<d>>) : d \in Level1}

\* the specs handed to Insert
InsertSpecs ==
    {[ID |-> "id1", Job |-> [Name |-> "ingest"], Status |-> ReplayStatusCreated,
      StartDate |-> 1, EndDate |-> 2, Message |-> m, ExecutionTree |-> t]
        : m \in {EmptyMessage,
                 ReplayMessage(AirflowClearDagRunFailed, <<"dag not found">>)},
          t \in {None} \cup {Some(x) : x \in InsertTrees}}

\* the zero Replay{}: no message bytes, no execution tree bytes
ZeroReplay ==
    [ID |-> uuidNil, JobID |-> "", StartDate |-> 0, EndDate |-> 0, Status |-> "",
     Message |-> <<>>, CreatedAt |-> 0, ExecutionTree |-> None]

\* the zero models.ReplaySpec{}
ZeroReplaySpec ==
    [ID |-> uuidNil, Job |-> [Name |-> "", Project |-> ""], Status |-> "",
     StartDate |-> 0, EndDate |-> 0, Message |-> EmptyMessage, CreatedAt |-> 0,
     ExecutionTree |-> None]

\* the json.Marshal calls FromSpec makes for a spec, and so the ones that can
\* fail: the message always, the tree when there is one
MarshalCalls(spec) ==
    {"message"} \cup (IF spec.ExecutionTree # None THEN {"tree"} ELSE {})

\* Replay.FromSpec with its error paths; failing names the json.Marshal call
\* that fails, if any
FromSpecResult(spec, failing) ==
    IF failing = "message" THEN [r |-> ZeroReplay, err |-> Nil]
    ELSE IF failing = "tree" THEN [r |-> ZeroReplay, err |-> ErrMarshal]
    ELSE [r |-> FromSpec(spec), err |-> Nil]

\* stored message bytes that json.Unmarshal accepts; bytes cut short are a
\* shorter list of pairs
ValidMessage(b) == Len(b) = 2 /\ b[1][1] = "Type" /\ b[2][1] = "Message"

\* stored tree bytes that json.Unmarshal accepts; bytes cut short lack a field
RECURSIVE ValidTree(_)
ValidTree(e) ==
    /\ DOMAIN e = {"Data", "Dependents", "Runs"}
    /\ \A k \in 1..Len(e.Dependents) : ValidTree(e.Dependents[k])

\* Replay.ToSpec with its error paths
ToSpecResult(p, jobSpec) ==
    IF ~ValidMessage(p.Message)
    THEN [spec |-> ZeroReplaySpec, err |-> Nil]
    ELSE IF p.ExecutionTree # None /\ ~ValidTree(p.ExecutionTree[1])
    THEN [spec |-> ZeroReplaySpec, err |-> ErrUnmarshal]
    ELSE [spec |-> ToSpec(p, jobSpec), err |-> Nil]

\* the ids of the table of the repository calls
TableIds == {uuidNil, "id0", "id1"}

\* a row stored earlier, as Insert stores it
StoredRow ==
    Created(FromSpec([ID |-> "id0", Job |-> [Name |-> "ingest"],
                      Status |-> ReplayStatusCreated, StartDate |-> 1,
                      EndDate |-> 2, Message |-> EmptyMessage,
                      ExecutionTree |-> Some(TreeNode("ingest", <<1, 2>>, <<>>))]))

\* the rows the table can hold before the calls: the stored row, and the row
\* with its message bytes or its execution tree bytes cut short
StoredRows ==
    {StoredRow,
     [StoredRow EXCEPT !.Message = << <<"Type", "">> >>],
     [StoredRow EXCEPT !.ExecutionTree =
         Some([Data |-> << <<"Name", "ingest">> >>, Dependents |-> <<>>])]}

\* what a repository call returned: the call, its id, the json.Marshal call
\* that failed in it, its error and the spec it returned
Result(op, id, failing, e, spec) ==
    [op |-> op, id |-> id, failing |-> failing, err |-> e, spec |-> spec]

NoResult == Result("", "", "none", Nil, None)

\* replayRepository.Insert(replay): FromSpec, then DB.Create of the row, which
\* fails on an existing primary key and can fail in the database
RepoInsert ==
    /\ \E failing \in {"none"} \cup MarshalCalls(replay) :
          LET res == FromSpecResult(replay, failing)
          IN IF res.err # Nil
             THEN /\ result' = Result("Insert", replay.ID, failing, res.err, None)
                  /\ UNCHANGED table
             ELSE \/ /\ table[res.r.ID] = None
                     /\ table' = [table EXCEPT ![res.r.ID] = Some(Created(res.r))]
                     /\ result' = Result("Insert", replay.ID, failing, Nil, None)
                  \/ /\ \E e \in (IF table[res.r.ID] # None
                                  THEN {ErrDuplicateKey} ELSE {ErrDB}) :
                           result' = Result("Insert", replay.ID, failing, e, None)
                     /\ UNCHANGED table
    /\ UNCHANGED <<db, pc, reqUUID, arg, r, replaySpec, replayDagsMap, i, err, ret,
                   log, started, replay>>

\* replayRepository.GetByID(id): the lookup, the job and project conversions,
\* then ToSpec of the row
RepoGetByID(id) ==
    /\ IF table[id] = None
       THEN \E e \in {ErrResourceNotFound, ErrDB} :
               result' = Result("GetByID", id, "none", e, Some(ZeroReplaySpec))
       ELSE \/ \E e \in GetByIDErrors :
                  result' = Result("GetByID", id, "none", e, Some(ZeroReplaySpec))
            \/ LET row == table[id][1]
                   res == ToSpecResult(row, [Name |-> row.JobID,
                                             Project |-> ProjectOf(row.JobID)])
               IN result' = Result("GetByID", id, "none", res.err, Some(res.spec))
    /\ UNCHANGED <<db, pc, reqUUID, arg, r, replaySpec, replayDagsMap, i, err, ret,
                   log, started, replay, table>>

\* the workers and the replay table as Init leaves them
InitWorkers ==
    /\ db = [id \in ReqIds |-> None]
    /\ pc = [w \in Workers |-> "idle"]
    /\ reqUUID = [w \in Workers |-> CHOOSE id \in ReqIds : TRUE]
    /\ arg = [w \in Workers |-> NoArg]
    /\ r = [w \in Workers |-> None]
    /\ replaySpec = [w \in Workers |-> None]
    /\ replayDagsMap = [w \in Workers |-> <<>>]
    /\ i = [w \in Workers |-> 0]
    /\ err = [w \in Workers |-> Nil]
    /\ ret = [w \in Workers |-> Nil]
    /\ log = [w \in Workers |-> <<>>]
    /\ started = [id \in ReqIds |-> 0]

Init ==
    /\ InitWorkers
    /\ replay = CHOOSE spec \in InsertSpecs :
                    spec.Message = EmptyMessage /\ spec.ExecutionTree = None
    /\ table = [id \in TableIds |-> None]
    /\ result = NoResult

Next ==
    \/ \E id \in ReqIds : Insert(id)
    \/ \E w \in Workers, id \in ReqIds : Process(w, id)
    \/ \E w \in Workers : UpdateStatusFind(w)
    \/ \E w \in Workers : UpdateStatusSave(w)
    \/ \E w \in Workers : GetByID(w)
    \/ \E w \in Workers : Clear(w)
    \/ \E w \in Workers : Finish(w)

Spec == Init /\ [][Next]_vars

\* the repository calls on their own: a spec to insert and a table that may
\* hold a row stored earlier
InitRepo ==
    /\ InitWorkers
    /\ replay \in InsertSpecs
    /\ \E row \in {None} \cup {Some(x) : x \in StoredRows} :
          table = [id \in TableIds |-> IF id = "id0" THEN row ELSE None]
    /\ result = NoResult

NextRepo ==
    \/ RepoInsert
    \/ \E id \in TableIds : RepoGetByID(id)

SpecRepo == InitRepo /\ [][NextRepo]_vars


\* ------------------------------------------------------------ properties
Returned(w) == pc[w] = "returned"

\* the calls of one operation made by the invocation of worker w, in order
Calls(w, op) == SelectSeq(log[w], LAMBDA c : c.op = op)

Last(s) == s[Len(s)]

Row(id) == db[id][1]

StoredMessage(id) == UnmarshalMessage(Row(id).Message)

\* w runs the only Process invocation there has been on its request
Only(w) == started[reqUUID[w]] = 1

Contains(text, fragment) == \E j \in 1..Len(text) : text[j] = fragment

\* the positions, among the Clear calls of w, of the calls that failed
FailedClears(w) == {k \in 1..Len(Calls(w, "Clear")) : Calls(w, "Clear")[k].res # Nil}

\* no call of the invocation of w has failed
NoCallFailed(w) == \A j \in 1..Len(log[w]) : log[w][j].res = Nil

\* w's last call was an UpdateStatus to the given status, with result ok
LastUpdateIs(w, status, ok) ==
    /\ log[w] # <<>>
    /\ Last(log[w]).op = "UpdateStatus"
    /\ Last(log[w]).status = status
    /\ (Last(log[w]).res = Nil) = ok

\* C1 (fail-fast): when the Clear of node k, in visitation order, fails, Clear
\* has been called for the nodes 1..k in that order and for no other node,
\* then and ever after in the invocation; and once Process has returned with
\* the Failed update done, the stored status is Failed and the stored message
\* has the clear-failed type and a text with the job name of node k and the
\* error text of its Clear.
C1_FailFast ==
    \A w \in Workers :
        FailedClears(w) # {} =>
            LET clears == Calls(w, "Clear")
                k == CHOOSE n \in FailedClears(w) : \A m \in FailedClears(w) : n <= m
                id == reqUUID[w]
            IN /\ Len(clears) = k
               /\ \A j \in 1..k : clears[j].job = replayDagsMap[w][j].Name
               /\ (Returned(w) /\ LastUpdateIs(w, ReplayStatusFailed, TRUE) /\ Only(w)) =>
                     /\ Row(id).Status = ReplayStatusFailed
                     /\ StoredMessage(id).Type = AirflowClearDagRunFailed
                     /\ Contains(StoredMessage(id).Message, replayDagsMap[w][k].Name)
                     /\ \A j \in 1..Len(clears[k].res) :
                           Contains(StoredMessage(id).Message, clears[k].res[j])

\* two requests of two nodes each: one Process failed at the first node and
\* left the second alone, the other cleared the first node and failed at the
\* second; both recorded the failure
C1_Witness ==
    \E w, v \in Workers :
        /\ \A x \in {w, v} :
              /\ Returned(x)
              /\ Only(x)
              /\ Len(replayDagsMap[x]) = 2
              /\ LastUpdateIs(x, ReplayStatusFailed, TRUE)
              /\ Row(reqUUID[x]).Status = ReplayStatusFailed
        /\ FailedClears(w) = {1}
        /\ FailedClears(v) = {2}

\* C2 (all-success): when Process has returned and none of its calls failed,
\* it returned nil, every node was cleared, and the stored status is Replayed
\* with an empty message.
C2_AllSuccess ==
    \A w \in Workers :
        (Returned(w) /\ NoCallFailed(w)) =>
            /\ ret[w] = Nil
            /\ replaySpec[w] # None
            /\ Len(Calls(w, "Clear")) = Len(replayDagsMap[w])
            /\ Only(w) =>
                  /\ Row(reqUUID[w]).Status = ReplayStatusReplayed
                  /\ StoredMessage(reqUUID[w]) = EmptyMessage

\* a Process that cleared both nodes of its tree and returned nil
C2_Witness ==
    \E w \in Workers :
        /\ Returned(w)
        /\ NoCallFailed(w)
        /\ Only(w)
        /\ Len(Calls(w, "Clear")) = 2
        /\ ret[w] = Nil


TerminalStatuses == {ReplayStatusReplayed, ReplayStatusFailed}

\* the stored status of a request, "" while it has no row
StatusOf(id) == IF db[id] = None THEN "" ELSE Row(id).Status

\* C3 as stated: over every sequence or interleaving of Process invocations,
\* a stored status Replayed or Failed never changes.
C3_TerminalAlways ==
    [][\A id \in ReqIds :
          StatusOf(id) \in TerminalStatuses => StatusOf(id)' = StatusOf(id)]_vars

\* C3 (amended): for a request on which Process is invoked at most once, a
\* stored status Replayed or Failed never changes.
C3_TerminalSingleInvocation ==
    [][\A id \in ReqIds :
          (started'[id] <= 1 /\ StatusOf(id) \in TerminalStatuses)
              => StatusOf(id)' = StatusOf(id)]_vars

\* the only invocation on a request has returned and left it Replayed
C3_Witness ==
    \E w \in Workers :
        /\ Returned(w)
        /\ Only(w)
        /\ StatusOf(reqUUID[w]) = ReplayStatusReplayed

\* the UpdateStatus calls of w that succeeded in writing one of the statuses
Written(w, statuses) ==
    SelectSeq(log[w], LAMBDA c : /\ c.op = "UpdateStatus"
                                 /\ c.res = Nil
                                 /\ c.status \in statuses)

\* the Clear calls of w cover every node and none has failed
AllCleared(w) ==
    /\ replayDagsMap[w] # <<>>
    /\ Len(Calls(w, "Clear")) = Len(replayDagsMap[w])
    /\ FailedClears(w) = {}

\* the worker whose Save changes the row of id in this step
Saving(w, id) == pc[w] = "Save" /\ reqUUID[w] = id /\ pc'[w] # "Save"

\* C4: with one Process invocation on a request created as Created, the
\* stored status changes only Created -> InProgress, InProgress -> Replayed
\* and InProgress -> Failed; Replayed is written by an invocation all of
\* whose Clears succeeded, Failed by one with a failed Clear; no invocation
\* writes both Replayed and Failed.
C4_SingleInvocationTransitions ==
    /\ [](\A w \in Workers : Len(Written(w, TerminalStatuses)) <= 1)
    /\ [][\A id \in ReqIds :
            (started'[id] <= 1 /\ StatusOf(id) # "" /\ StatusOf(id)' # StatusOf(id)) =>
                /\ <<StatusOf(id), StatusOf(id)'>> \in
                      { <<ReplayStatusCreated, ReplayStatusInProgress>>,
                        <<ReplayStatusInProgress, ReplayStatusReplayed>>,
                        <<ReplayStatusInProgress, ReplayStatusFailed>> }
                /\ StatusOf(id)' = ReplayStatusReplayed =>
                      \E w \in Workers : Saving(w, id) /\ AllCleared(w)
                /\ StatusOf(id)' = ReplayStatusFailed =>
                      \E w \in Workers : Saving(w, id) /\ FailedClears(w) # {}]_vars

\* the only invocation on a request has written InProgress, then Failed
C4_Witness ==
    \E w \in Workers :
        /\ Returned(w)
        /\ Only(w)
        /\ Len(Written(w, {ReplayStatusInProgress})) = 1
        /\ Len(Written(w, {ReplayStatusFailed})) = 1
        /\ StatusOf(reqUUID[w]) = ReplayStatusFailed

\* the initial UpdateStatus of w found the row (its lookup did not fail)
InitialLookupFound(w) ==
    /\ log[w] # <<>>
    /\ log[w][1].res # ErrNonExistingReplay

\* C5 as stated: once the only Process on a request that was Created has
\* returned, the stored status is Failed, Replayed, or InProgress with an
\* error returned; it is not Created.
C5_NeverLeftCreated ==
    \A w \in Workers :
        (Returned(w) /\ Only(w) /\ InitialLookupFound(w)) =>
            \/ StatusOf(reqUUID[w]) \in TerminalStatuses
            \/ StatusOf(reqUUID[w]) = ReplayStatusInProgress /\ ret[w] # Nil

\* C5 (amended): once the only Process on a request has returned, the stored
\* status is Replayed, or Failed or InProgress with an error returned, or it
\* is still Created and then Process returned the error of its initial
\* UpdateStatus, which was the only call it made.
C5_StatusOnReturn ==
    \A w \in Workers :
        (Returned(w) /\ Only(w) /\ db[reqUUID[w]] # None) =>
            \/ StatusOf(reqUUID[w]) = ReplayStatusReplayed /\ ret[w] = Nil
            \/ StatusOf(reqUUID[w]) = ReplayStatusFailed /\ ret[w] # Nil
            \/ StatusOf(reqUUID[w]) = ReplayStatusInProgress /\ ret[w] # Nil
            \/ /\ StatusOf(reqUUID[w]) = ReplayStatusCreated
               /\ Len(log[w]) = 1
               /\ log[w][1].op = "UpdateStatus"
               /\ log[w][1].res # Nil
               /\ ret[w] = log[w][1].res

\* the initial UpdateStatus found the row and its Save failed: Process has
\* returned and the request is still Created
C5_Witness ==
    \E w \in Workers :
        /\ Returned(w)
        /\ Only(w)
        /\ InitialLookupFound(w)
        /\ ret[w] = ErrDB
        /\ StatusOf(reqUUID[w]) = ReplayStatusCreated


\* the first call of w, the UpdateStatus to InProgress, has failed
InitialUpdateFailed(w) == log[w] # <<>> /\ log[w][1].res # Nil

\* C6: when the initial UpdateStatus(InProgress) fails, Process returns its
\* error at once, having called neither GetByID nor Clear nor anything else;
\* the failing call changes no row, and a request that only this invocation
\* touched still has the status Created and the empty message it was
\* created with.
C6_InitialUpdateFails ==
    /\ [](\A w \in Workers :
            InitialUpdateFailed(w) =>
                /\ Returned(w)
                /\ Len(log[w]) = 1
                /\ ret[w] = log[w][1].res
                /\ (Only(w) /\ db[reqUUID[w]] # None) =>
                      /\ StatusOf(reqUUID[w]) = ReplayStatusCreated
                      /\ StoredMessage(reqUUID[w]) = EmptyMessage)
    /\ [][\A w \in Workers :
            (~InitialUpdateFailed(w) /\ InitialUpdateFailed(w)') => db' = db]_vars

\* the initial UpdateStatus failed on a stored request
C6_Witness ==
    \E w \in Workers :
        /\ InitialUpdateFailed(w)
        /\ Returned(w)
        /\ Only(w)
        /\ db[reqUUID[w]] # None
        /\ ret[w] # Nil

\* the GetByID of w has failed
GetByIDFailed(w) ==
    \E j \in 1..Len(log[w]) : log[w][j].op = "GetByID" /\ log[w][j].res # Nil

\* C7: when GetByID fails after the request was marked InProgress, Process
\* returns the error of GetByID, and the invocation makes no Clear call and
\* no status update besides the first.
C7_GetByIDFails ==
    \A w \in Workers :
        GetByIDFailed(w) =>
            /\ Returned(w)
            /\ Last(log[w]).op = "GetByID"
            /\ ret[w] = Last(log[w]).res
            /\ Calls(w, "Clear") = <<>>
            /\ Len(Calls(w, "GetByID")) = 1
            /\ Len(Calls(w, "UpdateStatus")) = 1
            /\ Calls(w, "UpdateStatus")[1].status = ReplayStatusInProgress

\* GetByID failed on a request this invocation had marked InProgress
C7_Witness ==
    \E w \in Workers :
        /\ GetByIDFailed(w)
        /\ Only(w)
        /\ ret[w] = ErrProjectSecrets
        /\ StatusOf(reqUUID[w]) = ReplayStatusInProgress

\* C8 as stated: when a call of Process has failed, Process returns an error
\* and either the stored status is Failed with a non-empty message or an
\* UpdateStatus of the invocation has failed.
C8_FailuresRecorded ==
    \A w \in Workers :
        (Returned(w) /\ Only(w) /\ ~NoCallFailed(w)) =>
            /\ ret[w] # Nil
            /\ \/ /\ StatusOf(reqUUID[w]) = ReplayStatusFailed
                  /\ StoredMessage(reqUUID[w]).Message # <<>>
               \/ \E j \in 1..Len(log[w]) :
                     log[w][j].op = "UpdateStatus" /\ log[w][j].res # Nil

\* C9: when a Clear has failed and Process has returned, the failed Clear was
\* followed by UpdateStatus(Failed) and by nothing else; if that update
\* failed, Process returned the error of the update and the stored status is
\* still InProgress; if it succeeded, Process returned the Clear error
\* wrapped with the job name.
C9_FailedUpdateMasksClearError ==
    \A w \in Workers :
        (Returned(w) /\ FailedClears(w) # {}) =>
            LET n == Len(log[w])
                upd == log[w][n]
                clear == log[w][n - 1]
                wrapped == <<"error while clearing dag runs for job ",
                             clear.job, ": ">> \o clear.res
            IN /\ upd.op = "UpdateStatus"
               /\ upd.status = ReplayStatusFailed
               /\ clear.op = "Clear"
               /\ clear.res # Nil
               /\ Cardinality(FailedClears(w)) = 1
               /\ IF upd.res # Nil
                  THEN /\ ret[w] = upd.res
                       /\ ret[w] # wrapped
                       /\ Only(w) => StatusOf(reqUUID[w]) = ReplayStatusInProgress
                  ELSE ret[w] = wrapped

\* a Clear failed and so did the update that was to record it
C9_Witness ==
    \E w \in Workers :
        /\ Returned(w)
        /\ Only(w)
        /\ FailedClears(w) # {}
        /\ LastUpdateIs(w, ReplayStatusFailed, FALSE)
        /\ StatusOf(reqUUID[w]) = ReplayStatusInProgress

\* C10: the stored message of a request is empty unless its status is Failed,
\* and it is not empty when the status is Failed.
C10_MessageIffFailed ==
    \A id \in ReqIds :
        db[id] # None =>
            /\ StatusOf(id) # ReplayStatusFailed => StoredMessage(id) = EmptyMessage
            /\ StatusOf(id) = ReplayStatusFailed =>
                  /\ StoredMessage(id).Type # ""
                  /\ StoredMessage(id).Message # <<>>

\* a request that was Failed has been marked InProgress by a later invocation
C10_Witness ==
    \E w \in Workers :
        /\ Returned(w)
        /\ LastUpdateIs(w, ReplayStatusFailed, TRUE)
        /\ StatusOf(reqUUID[w]) = ReplayStatusInProgress


\* the job names of the trees
JobNames == UNION {{n.Name : n \in GetAllNodes(t)} : t \in Trees}

\* the status and message pairs that the UpdateStatus calls of Process pass
CallPairs ==
    {InProgressUpdate, ReplayedUpdate}
    \cup {[status |-> ReplayStatusFailed,
           message |-> ReplayMessage(AirflowClearDagRunFailed,
                          <<"error while clearing dag runs for job ", n, ": ">> \o e)]
            : n \in JobNames, e \in ClearErrors}

\* the step is the successful Save of worker w
Saves(w) ==
    /\ pc[w] = "Save"
    /\ pc'[w] # "Save"
    /\ Last(log'[w]).res = Nil

\* C11: under every interleaving of UpdateStatus calls, the stored status and
\* message are those of one single call (or those of Insert), and each Save
\* has the effect of one atomic update of the row as it is stored at that
\* moment: the row exists, gets the status and message of the call, keeps its
\* other fields, and no other row changes.
C11_UpdateStatusAtomic ==
    /\ [](\A id \in ReqIds :
            db[id] # None =>
                \/ /\ Row(id).Status = ReplayStatusCreated
                   /\ Row(id).Message = MarshalMessage(EmptyMessage)
                \/ \E c \in CallPairs :
                      /\ Row(id).Status = c.status
                      /\ Row(id).Message = MarshalMessage(c.message))
    /\ [][\A w \in Workers :
            Saves(w) =>
                /\ db[reqUUID[w]] # None
                /\ db' = [db EXCEPT ![reqUUID[w]] =
                            Some([Row(reqUUID[w]) EXCEPT
                                    !.Status = arg[w].status,
                                    !.Message = MarshalMessage(arg[w].message)])]]_vars

\* one UpdateStatus is between its lookup and its Save, holding the row as it
\* was when Created, while another invocation has since recorded Failed
C11_Witness ==
    \E w, v \in Workers :
        /\ w # v
        /\ reqUUID[w] = reqUUID[v]
        /\ pc[w] = "Save"
        /\ r[w][1].Status = ReplayStatusCreated
        /\ Returned(v)
        /\ LastUpdateIs(v, ReplayStatusFailed, TRUE)
        /\ StatusOf(reqUUID[w]) = ReplayStatusFailed

\* C12: an UpdateStatus on an id without a row returns an error, and the call
\* creates no row and changes none.
C12_UpdateStatusNonExisting ==
    /\ [][\A w \in Workers :
            (pc[w] = "UpdateStatus" /\ db[reqUUID[w]] = None /\ pc'[w] # pc[w]) =>
                /\ pc'[w] # "Save"
                /\ Last(log'[w]).op = "UpdateStatus"
                /\ Last(log'[w]).res = ErrNonExistingReplay
                /\ db' = db]_vars
    /\ [](\A w \in Workers : pc[w] = "Save" => db[reqUUID[w]] # None)

\* an UpdateStatus failed on an id without a row while the other row is stored
C12_Witness ==
    \E w \in Workers :
        /\ Returned(w)
        /\ ret[w] = ErrNonExistingReplay
        /\ db[reqUUID[w]] = None
        /\ \E id \in ReqIds : db[id] # None

\* the nodes of a stored execution tree, each with its job name and run list
RECURSIVE StoredNodes(_)
StoredNodes(e) ==
    {[Name |-> DecodeJobSpec(e.Data).Name, Runs |-> e.Runs]}
    \cup UNION {StoredNodes(e.Dependents[k]) : k \in 1..Len(e.Dependents)}

\* C16 (run range, no retries): in one Process invocation no two Clear calls
\* name the same node; every Clear call is for a node of the stored tree with
\* ascending runs t1..tn and passes start = t1, end = tn, the project of the
\* root job and the node's job name; when Process returns nil, Clear has been
\* called exactly once for every node of the stored tree.
C16_ClearOncePerNode ==
    \A w \in Workers :
        LET clears == Calls(w, "Clear")
        IN /\ \A j, k \in 1..Len(clears) : j # k => clears[j].job # clears[k].job
           /\ \A j \in 1..Len(clears) :
                 /\ db[reqUUID[w]] # None
                 /\ Row(reqUUID[w]).ExecutionTree # None
                 /\ clears[j].project = ProjectOf(Row(reqUUID[w]).JobID)
                 /\ \E n \in StoredNodes(Row(reqUUID[w]).ExecutionTree[1]) :
                       /\ n.Runs # <<>>
                       /\ \A a, b \in 1..Len(n.Runs) : a < b => n.Runs[a] < n.Runs[b]
                       /\ clears[j].job = n.Name
                       /\ clears[j].startTime = n.Runs[1]
                       /\ clears[j].endTime = n.Runs[Len(n.Runs)]
           /\ (Returned(w) /\ ret[w] = Nil) =>
                 /\ {clears[j].job : j \in 1..Len(clears)} =
                    {n.Name : n \in StoredNodes(Row(reqUUID[w]).ExecutionTree[1])}
                 /\ Len(clears) =
                    Cardinality(StoredNodes(Row(reqUUID[w]).ExecutionTree[1]))

\* every Clear succeeded on a two-node tree: the dependent was cleared over its
\* own runs 2..3, the root over 1..3
C16_Witness ==
    \E w \in Workers :
        /\ Returned(w)
        /\ ret[w] = Nil
        /\ Len(Calls(w, "Clear")) = 2
        /\ \E j \in 1..2 : /\ Calls(w, "Clear")[j].job = "transform"
                           /\ Calls(w, "Clear")[j].startTime = 2
                           /\ Calls(w, "Clear")[j].endTime = 3

\* the fields of a row that UpdateStatus leaves alone
Frame(row) == [row EXCEPT !.Status = "", !.Message = <<>>]

\* C17 (frame of UpdateStatus): no step removes a record or changes its id,
\* job id, start date, end date, execution tree or creation time, and the Save
\* of an UpdateStatus changes no record but the one it was called for.
C17_UpdateStatusFrame ==
    [][/\ \A id \in ReqIds :
             db[id] # None => /\ db'[id] # None
                              /\ Frame(db'[id][1]) = Frame(db[id][1])
       /\ \A w \in Workers : \A id \in ReqIds :
             (Saves(w) /\ id # reqUUID[w]) => db'[id] = db[id]]_vars

\* an UpdateStatus has changed the status of a record that has an execution
\* tree and dates, while another record is stored
C17_Witness ==
    \E w \in Workers : \E id \in ReqIds :
        /\ Written(w, {ReplayStatusFailed}) # <<>>
        /\ id # reqUUID[w]
        /\ db[id] # None
        /\ Row(reqUUID[w]).Status = ReplayStatusFailed
        /\ Row(reqUUID[w]).ExecutionTree # None
        /\ Row(reqUUID[w]).StartDate = 1
        /\ Row(reqUUID[w]).EndDate = 3
        /\ Row(reqUUID[w]).CreatedAt = 1

\* C18 as stated: a request stored without an execution tree is fetched
\* without one, and no Process invocation evaluates the first or last run of
\* a node whose run set is empty.
C18_AbsentTreePreserved ==
    \A w \in Workers :
        /\ (replaySpec[w] # None /\ Row(reqUUID[w]).ExecutionTree = None)
              => replaySpec[w][1].ExecutionTree = None
        /\ pc[w] # "panicked"

\* C19 (result of Process): Process returns nil exactly when no Clear of the
\* invocation failed and its last call, UpdateStatus(Replayed), succeeded, and
\* then every node was cleared; the message of an UpdateStatus(Replayed) is
\* empty; an invocation that returns an error has not written Replayed.
C19_NilIffReplayed ==
    \A w \in Workers :
        /\ arg[w].status = ReplayStatusReplayed => arg[w].message = EmptyMessage
        /\ Returned(w) =>
            /\ ret[w] = Nil <=>
                  /\ FailedClears(w) = {}
                  /\ LastUpdateIs(w, ReplayStatusReplayed, TRUE)
            /\ ret[w] = Nil => AllCleared(w)
            /\ ret[w] # Nil => Written(w, {ReplayStatusReplayed}) = <<>>

\* every Clear succeeded and the final UpdateStatus(Replayed) failed: Process
\* returned that error and the request is not Replayed by this invocation
C19_Witness ==
    \E w \in Workers :
        /\ Returned(w)
        /\ ret[w] # Nil
        /\ AllCleared(w)
        /\ LastUpdateIs(w, ReplayStatusReplayed, FALSE)

\* C20 as stated: a Process invocation makes at most two UpdateStatus calls,
\* at most one GetByID call and at most one Clear call per flattened node, and
\* an invocation that has stopped has returned.
C20_TerminatesWithinBounds ==
    \A w \in Workers :
        /\ Len(Calls(w, "UpdateStatus")) <= 2
        /\ Len(Calls(w, "GetByID")) <= 1
        /\ Len(Calls(w, "Clear")) <= Len(replayDagsMap[w])
        /\ pc[w] \notin {"idle", "UpdateStatus", "Save", "GetByID", "Clear"}
              => Returned(w)

\* the row of the table of the repository calls
TableRow(id) == table[id][1]

C14_CorruptPayloadErrors ==
    (/\ result.op = "GetByID"
     /\ table[result.id] # None
     /\ \/ ~ValidMessage(TableRow(result.id).Message)
        \/ /\ TableRow(result.id).ExecutionTree # None
           /\ ~ValidTree(TableRow(result.id).ExecutionTree[1]))
        => result.err # Nil

\* C15 as stated: an Insert of a spec whose id is already stored, or in which
\* serializing the message or the execution tree fails, returns an error and
\* leaves the table as it was.
C15_InsertFailsCleanly ==
    [][(/\ result'.op = "Insert"
        /\ \/ table[replay.ID] # None
           \/ result'.failing # "none")
          => /\ result'.err # Nil
             /\ table' = table]_vars

====
